---- MODULE Spec2Model ----
(***************************************************************************)
(* DeceptiveDNS (src/main.go, the revision at lines 188-414): a UDP        *)
(* receive loop that hands every datagram to its own goroutine, which      *)
(* unpacks the question, compares its name with the configured domain and  *)
(* writes back a packed response.                                          *)
(*                                                                         *)
(* Bytes are the numbers 0..255; a Go string or []byte is a sequence of    *)
(* bytes.  Go indexes from 0, TLA+ sequences from 1: At(s, i) is s[i].     *)
(***************************************************************************)
EXTENDS Integers, Sequences, FiniteSets, TLC

VARIABLES domain, ip, loopPc, cur, heap, recvd, handlers, sent, readErrs, alive

vars == <<domain, ip, loopPc, cur, heap, recvd, handlers, sent, readErrs, alive>>

(***************************************************************************)
(* Bounds of the model.                                                    *)
(***************************************************************************)
\* datagrams the receive loop reads in one run
MaxDatagrams == 2
\* failed socket reads in one run
MaxReadErrs == 1
\* capacity of the receive buffer: make([]byte, 1024) in the code, scaled down
BufCap == 22
\* datagrams of one query run
MaxQueries == 2
\* longest name (bytes before the zero byte) of the codec inputs
MaxName == 4

(***************************************************************************)
(* Program constants (src/main.go:409-413).                                *)
(***************************************************************************)
dnsTypeA == 1
dnsClassIN == 1
dnsFlagsResponse == 33152
\* The header length unpack requires and pack writes.
HeaderLen == 12

(***************************************************************************)
(* Sequence helpers.                                                       *)
(***************************************************************************)
At(s, i) == s[i + 1]

\* Go's s[lo:hi] on a sequence (no bounds check here: callers do it).
Slice(s, lo, hi) == [k \in 1..(hi - lo) |-> s[lo + k]]

Min(a, b) == IF a < b THEN a ELSE b

\* binary.BigEndian.Uint16 of the two bytes at index i, i+1.
Uint16(s, i) == At(s, i) * 256 + At(s, i + 1)

\* binary.BigEndian.PutUint16
PutUint16(v) == <<(v \div 256) % 256, v % 256>>

Zeros(n) == [k \in 1..n |-> 0]

(***************************************************************************)
(* dnsMsg.unpack (src/main.go:360-385).  buf is the whole receive buffer   *)
(* (length = its capacity), n the number of bytes ReadFromUDP stored: the  *)
(* handler's req is buf[:n], a slice of length n and capacity Len(buf).    *)
(* Indexing req[i] panics for i >= n; slicing req[lo:hi] panics only for   *)
(* hi > capacity, so a slice may reach bytes of buf beyond n.              *)
(***************************************************************************)
RECURSIVE ScanName(_, _, _)
\* for qStart < len(data) && data[qStart] != 0 { qStart++ }
ScanName(buf, n, q) ==
    IF q < n /\ At(buf, q) # 0 THEN ScanName(buf, n, q + 1) ELSE q

\* The zero value of dnsMsg with the outcome of unpack: status is "ok" (nil
\* error), "error" (an error value) or "panic" (a run-time panic); lastRead is
\* the highest index of buf that unpack read (-1: none).
UnpackResult(status, id, flags, name, type, class, lastRead) ==
    [status |-> status, ID |-> id, Flags |-> flags, Name |-> name,
     Type |-> type, Class |-> class, lastRead |-> lastRead]

\* if qStart+4 > len(data) { return error }
QuestionTooShort(q, n) == q + 4 > n

Unpack(buf, n) ==
    IF n < HeaderLen
    THEN UnpackResult("error", 0, 0, <<>>, 0, 0, -1)
    ELSE LET id    == Uint16(buf, 0)
             flags == Uint16(buf, 2)
             q     == ScanName(buf, n, HeaderLen)
         IN  IF QuestionTooShort(q, n)
             THEN UnpackResult("error", id, flags, <<>>, 0, 0,
                               IF n > HeaderLen THEN Min(q, n - 1) ELSE 3)
             ELSE IF q + 5 > Len(buf)
                  \* data[qStart+3 : qStart+5]: slice bounds out of range
                  THEN UnpackResult("panic", id, flags, Slice(buf, HeaderLen, q),
                                    Uint16(buf, q + 1), 0, q + 2)
                  ELSE UnpackResult("ok", id, flags, Slice(buf, HeaderLen, q),
                                    Uint16(buf, q + 1), Uint16(buf, q + 3), q + 4)

(***************************************************************************)
(* dnsMsg.pack (src/main.go:387-407).  The Answers of the message are not  *)
(* read: the result is a 12-byte header holding ID and Flags and eight     *)
(* zero bytes, then the question re-encoded from its Name.                 *)
(***************************************************************************)
\* strings.Split(s, "."): the pieces of s between its '.' bytes.  SplitFrom
\* scans s from index k, the piece in progress starting at index from.
RECURSIVE SplitFrom(_, _, _)
SplitFrom(s, from, k) ==
    IF k > Len(s) THEN <<SubSeq(s, from, Len(s))>>
    ELSE IF s[k] = 46 THEN <<SubSeq(s, from, k - 1)>> \o SplitFrom(s, k + 1, k + 1)
    ELSE SplitFrom(s, from, k + 1)

Split(s) == SplitFrom(s, 1, 1)

\* for _, label := range qName { append(byte(len(label))); append(label...) }
RECURSIVE PackLabels(_)
PackLabels(labels) ==
    IF labels = <<>> THEN <<>>
    ELSE <<Len(Head(labels)) % 256>> \o Head(labels) \o PackLabels(Tail(labels))

\* qNameBytes, with its terminating zero.
PackName(name) == PackLabels(Split(name)) \o <<0>>

\* header := make([]byte, 12); PutUint16(header[:2], ID); PutUint16(header[2:4], Flags)
PackHeader(msg) == PutUint16(msg.ID) \o PutUint16(msg.Flags) \o Zeros(8)

Pack(msg) ==
    PackHeader(msg) \o PackName(msg.Question.Name)
        \o PutUint16(msg.Question.Type) \o PutUint16(msg.Question.Class)

(***************************************************************************)
(* strings.EqualFold (called at src/main.go:291): equality of the two      *)
(* strings read as UTF-8 under simple Unicode case folding.  Both strings  *)
(* are decoded rune by rune (an invalid byte decodes to U+FFFD, width     *)
(* 1) and compared rune-wise.                                              *)
(***************************************************************************)
IsCont(b) == 128 <= b /\ b <= 191

\* utf8.DecodeRuneInString: the first rune of s (s non-empty) and its width.
DecodeRune(s) ==
    LET b0 == s[1]
        b1 == IF Len(s) >= 2 THEN s[2] ELSE 0
        b2 == IF Len(s) >= 3 THEN s[3] ELSE 0
        b3 == IF Len(s) >= 4 THEN s[4] ELSE 0
        bad == [r |-> 65533, size |-> 1]   \* utf8.RuneError, U+FFFD
    IN  IF b0 < 128 THEN [r |-> b0, size |-> 1]   \* below utf8.RuneSelf
        ELSE IF 194 <= b0 /\ b0 <= 223
        THEN IF IsCont(b1)
             THEN [r |-> (b0 - 192) * 64 + (b1 - 128), size |-> 2] ELSE bad
        ELSE IF 224 <= b0 /\ b0 <= 239
        THEN IF /\ IsCont(b1) /\ IsCont(b2)
                /\ (b0 = 224 => b1 >= 160)
                /\ (b0 = 237 => b1 <= 159)
             THEN [r |-> (b0 - 224) * 4096 + (b1 - 128) * 64 + (b2 - 128),
                   size |-> 3]
             ELSE bad
        ELSE IF 240 <= b0 /\ b0 <= 244
        THEN IF /\ IsCont(b1) /\ IsCont(b2) /\ IsCont(b3)
                /\ (b0 = 240 => b1 >= 144)
                /\ (b0 = 244 => b1 <= 143)
             THEN [r |-> (b0 - 240) * 262144 + (b1 - 128) * 4096
                            + (b2 - 128) * 64 + (b3 - 128),
                   size |-> 4]
             ELSE bad
        ELSE bad

RECURSIVE Runes(_)
Runes(s) ==
    IF s = <<>> THEN <<>>
    ELSE LET d == DecodeRune(s)
         IN  <<d.r>> \o Runes(SubSeq(s, d.size + 1, Len(s)))

\* The orbit of r under unicode.SimpleFold, for the runes the model's strings
\* can hold: the ASCII letters (K and S fold with U+212A KELVIN SIGN and
\* U+017F LATIN SMALL LETTER LONG S as well) and runes without case.
FoldOrbit(r) ==
    IF r \in {75, 107, 8490} THEN {75, 107, 8490}
    ELSE IF r \in {83, 115, 383} THEN {83, 115, 383}
    ELSE IF 65 <= r /\ r <= 90 THEN {r, r + 32}
    ELSE IF 97 <= r /\ r <= 122 THEN {r, r - 32}
    ELSE {r}

EqualFold(s, t) ==
    LET rs == Runes(s)
        rt == Runes(t)
    IN  /\ Len(rs) = Len(rt)
        /\ \A k \in 1..Len(rs) : rt[k] \in FoldOrbit(rs[k])

(***************************************************************************)
(* net.ParseIP (called at src/main.go:303) on a dotted-decimal string: the *)
(* four bytes of the address, or the empty sequence (nil) when the string  *)
(* is no IPv4 literal.                                                     *)
(***************************************************************************)
IsDigit(b) == 48 <= b /\ b <= 57

\* The number the first k decimal digits of f spell.
RECURSIVE DecimalPrefix(_, _)
DecimalPrefix(f, k) ==
    IF k = 0 THEN 0 ELSE DecimalPrefix(f, k - 1) * 10 + (f[k] - 48)

Decimal(f) == DecimalPrefix(f, Len(f))

ValidOctet(f) ==
    /\ Len(f) \in 1..3
    /\ \A k \in 1..Len(f) : IsDigit(f[k])
    /\ (Len(f) > 1 => f[1] # 48)
    /\ Decimal(f) <= 255

ParseIP(s) ==
    LET fs == Split(s)
    IN  IF Len(fs) = 4 /\ \A k \in 1..4 : ValidOctet(fs[k])
        THEN [k \in 1..4 |-> Decimal(fs[k])]
        ELSE <<>>

(***************************************************************************)
(* The configuration main hands to the server (src/main.go:229-232) and    *)
(* the datagrams the network delivers.                                     *)
(***************************************************************************)
\* -domain s.a
Domains == {<<115, 46, 97>>}

\* -ip 192.168.1.100
Ips == {<<49, 57, 50, 46, 49, 54, 56, 46, 49, 46, 49, 48, 48>>}

\* The peers datagrams come from.
Addrs == {"peer1", "peer2"}

\* A query header: ID, flags 0x0100 (recursion desired), QDCOUNT 1, no records.
QueryHeader(id) == PutUint16(id) \o <<1, 0, 0, 1>> \o Zeros(6)

\* A datagram whose bytes from offset 12 are name, a zero byte, type and class IN.
Query(id, name, type) ==
    QueryHeader(id) \o name \o <<0>> \o PutUint16(type) \o PutUint16(dnsClassIN)

\* A well-formed query one byte longer than the receive buffer: ReadFromUDP
\* stores its first BufCap bytes.
LongQuery ==
    Query(4660, <<BufCap - 17>> \o [k \in 1..(BufCap - 17) |-> 97], dnsTypeA)

\* The datagrams of the server runs, one for each way a handler can end: a
\* matching name, another name, a question whose class is cut to one byte, a
\* question with no terminator, and a datagram that fills the buffer.
\* 4660 = 0x1234.
Datagrams ==
    { Query(4660, <<115, 46, 97>>, dnsTypeA),            \* the text "s.a", A
      Query(4660, <<115, 46, 98>>, dnsTypeA),            \* the text "s.b", A
      QueryHeader(4660) \o <<115, 46, 97, 0, 0, 1, 0>>,  \* class cut to 1 byte
      QueryHeader(4660) \o <<115, 46, 97>>,              \* no terminator
      LongQuery }

\* The datagrams of the query runs: DNS queries (names as length-prefixed
\* labels) and datagrams that carry a name as plain text.  22136 = 0x5678.
QueryDatagrams ==
    Datagrams \cup
    { Query(4660, <<1, 115, 1, 97>>, dnsTypeA),      \* s.a    A    (labels)
      Query(4660, <<1, 83, 1, 65>>, dnsTypeA),       \* S.A    A    (labels)
      Query(22136, <<1, 115, 1, 97>>, 28),           \* s.a    AAAA (labels)
      Query(4660, <<83, 46, 65>>, dnsTypeA),         \* the text "S.A", A
      Query(22136, <<115, 46, 97>>, 28),             \* the text "s.a", AAAA
      Query(4660, <<115, 46, 97>>, 15),              \* the text "s.a", MX
      Query(4660, <<197, 191, 46, 97>>, dnsTypeA),   \* the text "ſ.a" (U+017F)
      QueryHeader(4660) \o <<115, 46, 97, 0, 0, 1>>, \* no class
      <<18, 52, 1, 0>> }                             \* shorter than a header

\* The inputs of the codec runs: a header, then every name over the bytes 1,
\* '.', 'a', 's' up to MaxName long, then every way the rest can be cut short
\* or complete; the headers cut short; and the datagram that fills the buffer.
RECURSIVE SeqsUpTo(_, _)
SeqsUpTo(S, n) ==
    IF n = 0 THEN {<<>>}
    ELSE LET shorter == SeqsUpTo(S, n - 1)
         IN  shorter \cup {Append(s, x) : s \in shorter, x \in S}

CodecNames == SeqsUpTo({1, 46, 97, 115}, MaxName)

CodecTails ==
    { <<>>, <<0>>, <<0, 0>>, <<0, 0, 1>>, <<0, 0, 1, 0>>, <<0, 0, 1, 0, 1>>,
      <<0, 0, 28, 0, 1>>, <<0, 0, 1, 0, 1, 0>> }

CodecInputs ==
    {QueryHeader(4660) \o nm \o tl : nm \in CodecNames, tl \in CodecTails}
        \cup {SubSeq(QueryHeader(4660), 1, k) : k \in 0..(HeaderLen - 1)}
        \cup {LongQuery}

(***************************************************************************)
(* The server: dnsServer.start (src/main.go:248-274) and one goroutine of  *)
(* dnsServer.handleRequest (src/main.go:276-322) per datagram.             *)
(*                                                                         *)
(* loopPc is the place of the receive loop, cur its locals after a read,   *)
(* heap the buffers made so far, handlers the goroutines started, sent the *)
(* datagrams handed to conn.WriteToUDP.  recvd records what each read      *)
(* delivered, and alive that the process has not died of a panic.  The     *)
(* interrupt that ends main, and a WriteToUDP that fails (it is logged,    *)
(* nothing else changes), are left out.                                    *)
(***************************************************************************)
\* The zero dnsMsg of "var msg dnsMsg", before unpack has run.
ZeroMsg == UnpackResult("none", 0, 0, <<>>, 0, 0, -1)

Init ==
    /\ domain \in Domains
    /\ ip \in Ips
    /\ loopPc = "read"
    /\ cur = [buf |-> 0, n |-> 0, addr |-> ""]
    /\ heap = <<>>
    /\ recvd = <<>>
    /\ handlers = <<>>
    /\ sent = {}
    /\ readErrs = 0
    /\ alive = TRUE

\* Mutant of MakeBuf: one buffer, made before the loop and used by every read.
MakeBufOnce(h) == 1

\* buf := make([]byte, 1024): every iteration of the loop takes a new buffer.
MakeBuf(h) == Len(h) + 1

\* The contents of buffer b after ReadFromUDP stored the n bytes of d in it: a
\* new buffer is zeroed by make, bytes beyond n keep what they held.
Stored(h, b, d, n) ==
    LET old == IF b <= Len(h) THEN h[b] ELSE Zeros(BufCap)
    IN  [k \in 1..BufCap |-> IF k <= n THEN d[k] ELSE old[k]]

\* n, addr, err := conn.ReadFromUDP(buf) with err == nil; req := buf[:n].
\* The datagram comes from inputs; limit bounds the datagrams of a run.
ReadFromUDPOk(inputs, limit) ==
    /\ alive
    /\ loopPc = "read"
    /\ Len(recvd) < limit
    /\ \E d \in inputs, a \in Addrs :
          LET b == MakeBuf(heap)
              n == Min(Len(d), BufCap)
          IN  /\ heap' = IF b <= Len(heap)
                         THEN [heap EXCEPT ![b] = Stored(heap, b, d, n)]
                         ELSE Append(heap, Stored(heap, b, d, n))
              /\ cur' = [buf |-> b, n |-> n, addr |-> a]
              /\ recvd' = Append(recvd, [bytes |-> SubSeq(d, 1, n), addr |-> a])
    /\ loopPc' = "go"
    /\ UNCHANGED <<domain, ip, handlers, sent, readErrs, alive>>

\* if err != nil { log.Println(...); continue }
AfterReadError == "read"

ReadFromUDPErr ==
    /\ alive
    /\ loopPc = "read"
    /\ readErrs < MaxReadErrs
    /\ readErrs' = readErrs + 1
    /\ loopPc' = AfterReadError
    /\ UNCHANGED <<domain, ip, cur, heap, recvd, handlers, sent, alive>>

\* go s.handleRequest(conn, addr, req)
GoHandleRequest ==
    /\ alive
    /\ loopPc = "go"
    /\ handlers' = Append(handlers, [buf |-> cur.buf, n |-> cur.n,
                                     addr |-> cur.addr, pc |-> "unpack",
                                     msg |-> ZeroMsg, out |-> "running"])
    /\ cur' = [buf |-> 0, n |-> 0, addr |-> ""]
    /\ loopPc' = "read"
    /\ UNCHANGED <<domain, ip, heap, recvd, sent, readErrs, alive>>

\* Mutant of DeferredRecover: no deferred recover, a panic ends the process.
NoRecover(status) == IF status = "panic" THEN "crashed" ELSE "returned"

\* The deferred function of handleRequest: recover() ends a panic of the
\* goroutine, which then returns normally; the process goes on.
DeferredRecover(status) == IF status = "panic" THEN "recovered" ELSE "returned"

\* msg.unpack(req) returned nil
UnpackOk(h) ==
    /\ alive
    /\ handlers[h].pc = "unpack"
    /\ LET m == Unpack(heap[handlers[h].buf], handlers[h].n)
       IN  /\ m.status = "ok"
           /\ handlers' = [handlers EXCEPT ![h].pc = "match", ![h].msg = m]
    /\ UNCHANGED <<domain, ip, loopPc, cur, heap, recvd, sent, readErrs, alive>>

\* msg.unpack(req) returned an error: log and return
UnpackError(h) ==
    /\ alive
    /\ handlers[h].pc = "unpack"
    /\ LET m == Unpack(heap[handlers[h].buf], handlers[h].n)
       IN  /\ m.status = "error"
           /\ handlers' = [handlers EXCEPT ![h].pc = "done", ![h].msg = m,
                                           ![h].out = "error"]
    /\ UNCHANGED <<domain, ip, loopPc, cur, heap, recvd, sent, readErrs, alive>>

\* msg.unpack(req) panicked: the deferred function runs
UnpackPanic(h) ==
    /\ alive
    /\ handlers[h].pc = "unpack"
    /\ LET m == Unpack(heap[handlers[h].buf], handlers[h].n)
       IN  /\ m.status = "panic"
           /\ handlers' = [handlers EXCEPT ![h].pc = "done", ![h].msg = m,
                                           ![h].out = DeferredRecover(m.status)]
           /\ alive' = (DeferredRecover(m.status) # "crashed")
    /\ UNCHANGED <<domain, ip, loopPc, cur, heap, recvd, sent, readErrs>>

\* The dnsMsg handleRequest builds for a matching request (lines 293-306).
Response(m, dom, ipaddr) ==
    [ID |-> m.ID, Flags |-> dnsFlagsResponse,
     Question |-> [Name |-> m.Name, Type |-> m.Type, Class |-> m.Class],
     Answers |-> <<[Name |-> dom, Type |-> dnsTypeA, Class |-> dnsClassIN,
                    TTL |-> 3600, Data |-> ParseIP(ipaddr)]>>]

\* strings.EqualFold(msg.Question.Name, s.domain) is false: nothing is sent
NoMatch(h) ==
    /\ alive
    /\ handlers[h].pc = "match"
    /\ ~EqualFold(handlers[h].msg.Name, domain)
    /\ handlers' = [handlers EXCEPT ![h].pc = "done", ![h].out = "dropped"]
    /\ UNCHANGED <<domain, ip, loopPc, cur, heap, recvd, sent, readErrs, alive>>

\* The names match: resp.pack() and conn.WriteToUDP(respBytes, addr).  sent
\* holds the datagrams handed to the socket, each with the handler it is by.
Respond(h) ==
    /\ alive
    /\ handlers[h].pc = "match"
    /\ EqualFold(handlers[h].msg.Name, domain)
    /\ sent' = sent \cup {[by |-> h, to |-> handlers[h].addr,
                           bytes |-> Pack(Response(handlers[h].msg, domain, ip))]}
    /\ handlers' = [handlers EXCEPT ![h].pc = "done", ![h].out = "sent"]
    /\ UNCHANGED <<domain, ip, loopPc, cur, heap, recvd, readErrs, alive>>

\* The steps of the handler goroutines.
Hs == 1..Len(handlers)

Next ==
    \/ ReadFromUDPOk(Datagrams, MaxDatagrams)
    \/ ReadFromUDPErr
    \/ GoHandleRequest
    \/ \E h \in Hs : UnpackOk(h)
    \/ \E h \in Hs : UnpackError(h)
    \/ \E h \in Hs : UnpackPanic(h)
    \/ \E h \in Hs : NoMatch(h)
    \/ \E h \in Hs : Respond(h)

Spec == Init /\ [][Next]_vars

\* The same server on the query datagrams.
NextQueries ==
    \/ ReadFromUDPOk(QueryDatagrams, MaxQueries)
    \/ ReadFromUDPErr
    \/ GoHandleRequest
    \/ \E h \in Hs : UnpackOk(h)
    \/ \E h \in Hs : UnpackError(h)
    \/ \E h \in Hs : UnpackPanic(h)
    \/ \E h \in Hs : NoMatch(h)
    \/ \E h \in Hs : Respond(h)

SpecQueries == Init /\ [][NextQueries]_vars

\* One datagram, drawn from the codec inputs, through the same server.
NextCodec ==
    \/ ReadFromUDPOk(CodecInputs, 1)
    \/ ReadFromUDPErr
    \/ GoHandleRequest
    \/ \E h \in Hs : UnpackOk(h)
    \/ \E h \in Hs : UnpackError(h)
    \/ \E h \in Hs : UnpackPanic(h)
    \/ \E h \in Hs : NoMatch(h)
    \/ \E h \in Hs : Respond(h)

SpecCodec == Init /\ [][NextCodec]_vars

(***************************************************************************)
(* What the claims speak of.                                               *)
(***************************************************************************)
\* The receive buffer as make and one ReadFromUDP of d leave it.
Fresh(d) == Stored(<<>>, 1, d, Min(Len(d), BufCap))

\* handleRequest run alone on datagram d: how it ends and the bytes it hands
\* to WriteToUDP (none: the empty sequence).
HandleRequest(d, dom, ipaddr) ==
    LET m == Unpack(Fresh(d), Min(Len(d), BufCap))
    IN  IF m.status = "error" THEN [out |-> "error", bytes |-> <<>>]
        ELSE IF m.status = "panic"
        THEN [out |-> DeferredRecover(m.status), bytes |-> <<>>]
        ELSE IF EqualFold(m.Name, dom)
        THEN [out |-> "sent", bytes |-> Pack(Response(m, dom, ipaddr))]
        ELSE [out |-> "dropped", bytes |-> <<>>]

Done(h) == handlers[h].pc = "done"

Req(h) == recvd[h].bytes

SentBy(h) == {r \in sent : r.by = h}

RespID(bytes) == Uint16(bytes, 0)
RespFlags(bytes) == Uint16(bytes, 2)
AnswerCount(bytes) == Uint16(bytes, 6)

\* d is a DNS query of the given type, class IN, for the dotted name dom: its
\* bytes from offset 12 are dom's labels, each behind its length, a zero byte,
\* the type and the class.
AsksFor(d, dom, type) ==
    /\ Len(d) >= HeaderLen
    /\ SubSeq(d, HeaderLen + 1, Len(d)) =
           PackName(dom) \o PutUint16(type) \o PutUint16(dnsClassIN)

AsciiLower(b) == IF 65 <= b /\ b <= 90 THEN b + 32 ELSE b

\* Byte-wise equality up to the case of ASCII letters.
AsciiEqualFold(s, t) ==
    /\ Len(s) = Len(t)
    /\ \A k \in 1..Len(s) : AsciiLower(s[k]) = AsciiLower(t[k])

(***************************************************************************)
(* C1: a DNS query of type A for the configured domain gets exactly one    *)
(* response, sent to its sender, with the query's ID, flags 0x8180, answer *)
(* count 1 and the four bytes of the configured address as the RDATA that  *)
(* ends the datagram.                                                      *)
(***************************************************************************)
C1_ARecordAnswered ==
    \A h \in Hs :
        (Done(h) /\ AsksFor(Req(h), domain, dnsTypeA)) =>
            \E r \in sent :
                /\ SentBy(h) = {r}
                /\ r.to = recvd[h].addr
                /\ RespID(r.bytes) = Uint16(Req(h), 0)
                /\ RespFlags(r.bytes) = dnsFlagsResponse
                /\ AnswerCount(r.bytes) = 1
                /\ SubSeq(r.bytes, Len(r.bytes) - 3, Len(r.bytes)) = ParseIP(ip)

(***************************************************************************)
(* C2: a datagram whose decoded question name differs from the configured  *)
(* domain, up to the case of ASCII letters, gets no response, whatever its *)
(* query type.                                                             *)
(***************************************************************************)
C2_OtherNamesDropped ==
    \A h \in Hs :
        (/\ Done(h)
         /\ handlers[h].msg.status = "ok"
         /\ ~AsciiEqualFold(handlers[h].msg.Name, domain)) => SentBy(h) = {}

(***************************************************************************)
(* C3: of two type A queries with the same ID whose names differ only in   *)
(* the case of ASCII letters, one of them for the configured domain, both  *)
(* are answered, with the same ID, flags, answer count and RDATA.          *)
(***************************************************************************)
C3_CaseInsensitiveAnswers ==
    \A h1, h2 \in Hs :
        (/\ Done(h1) /\ Done(h2)
         /\ AsksFor(Req(h1), domain, dnsTypeA)
         /\ Req(h2) # Req(h1)
         /\ Len(Req(h2)) = Len(Req(h1))
         /\ SubSeq(Req(h2), 1, HeaderLen) = SubSeq(Req(h1), 1, HeaderLen)
         /\ AsciiEqualFold(Req(h2), Req(h1))) =>
            \E r1, r2 \in sent :
                /\ SentBy(h1) = {r1}
                /\ SentBy(h2) = {r2}
                /\ RespID(r1.bytes) = RespID(r2.bytes)
                /\ RespFlags(r1.bytes) = RespFlags(r2.bytes)
                /\ AnswerCount(r1.bytes) = AnswerCount(r2.bytes)
                /\ SubSeq(r1.bytes, Len(r1.bytes) - 3, Len(r1.bytes)) =
                       SubSeq(r2.bytes, Len(r2.bytes) - 3, Len(r2.bytes))

(***************************************************************************)
(* C4: a DNS query of type AAAA for the configured domain gets exactly one *)
(* response, with the query's ID, flags 0x8180, answer count 0, and as     *)
(* long as the request's header and question.                              *)
(***************************************************************************)
C4_AAAAEmptyAnswer ==
    \A h \in Hs :
        (Done(h) /\ AsksFor(Req(h), domain, 28)) =>
            \E r \in sent :
                /\ SentBy(h) = {r}
                /\ RespID(r.bytes) = Uint16(Req(h), 0)
                /\ RespFlags(r.bytes) = dnsFlagsResponse
                /\ AnswerCount(r.bytes) = 0
                /\ Len(r.bytes) = Len(Req(h))

(***************************************************************************)
(* C5: a decodable datagram whose name matches the configured domain and   *)
(* whose query type is neither A (1) nor AAAA (28) gets no response.       *)
(***************************************************************************)
C5_OtherTypesDropped ==
    \A h \in Hs :
        (/\ Done(h)
         /\ handlers[h].msg.status = "ok"
         /\ EqualFold(handlers[h].msg.Name, domain)
         /\ handlers[h].msg.Type \notin {dnsTypeA, 28}) => SentBy(h) = {}

(***************************************************************************)
(* C6: on a buffer of at least 12 bytes with fewer than 4 bytes after the  *)
(* zero byte that ends the name (or with no such byte), unpack returns an  *)
(* error and reads no index at or beyond the buffer's length.              *)
(***************************************************************************)
\* Bytes of d after the first zero byte at offset 12 or later (0: there is none).
BytesAfterName(d) ==
    LET z == ScanName(d, Len(d), HeaderLen)
    IN  IF z >= Len(d) THEN 0 ELSE Len(d) - z - 1

C6_TruncatedQuestionRejected ==
    \A h \in Hs :
        (/\ handlers[h].pc # "unpack"
         /\ Len(Req(h)) >= HeaderLen
         /\ BytesAfterName(Req(h)) < 4) =>
            /\ handlers[h].msg.status = "error"
            /\ handlers[h].msg.lastRead < Len(Req(h))

(***************************************************************************)
(* C7: on a query whose name is a sequence of length-prefixed labels (1 to *)
(* 63 bytes each, at most 255 bytes in all) ended by a zero byte, followed *)
(* by type and class, unpack yields as name the labels joined with '.'.    *)
(***************************************************************************)
RECURSIVE WellFormedName(_)
WellFormedName(w) ==
    /\ w # <<>>
    /\ IF w[1] = 0 THEN Len(w) = 1
       ELSE /\ w[1] <= 63
            /\ Len(w) > 1 + w[1]
            /\ WellFormedName(SubSeq(w, 2 + w[1], Len(w)))

RECURSIVE LabelsOf(_)
LabelsOf(w) ==
    IF w[1] = 0 THEN <<>>
    ELSE <<SubSeq(w, 2, 1 + w[1])>> \o LabelsOf(SubSeq(w, 2 + w[1], Len(w)))

RECURSIVE JoinDots(_)
JoinDots(ls) ==
    IF ls = <<>> THEN <<>>
    ELSE IF Len(ls) = 1 THEN ls[1]
    ELSE ls[1] \o <<46>> \o JoinDots(Tail(ls))

\* The name bytes of d, from offset 12 to its first zero byte, that included.
WireName(d) == Slice(d, HeaderLen, ScanName(d, Len(d), HeaderLen) + 1)

WellFormedQuery(d) ==
    /\ Len(d) >= HeaderLen + 5
    /\ Len(d) = ScanName(d, Len(d), HeaderLen) + 5
    /\ Len(WireName(d)) <= 255
    /\ WellFormedName(WireName(d))

C7_NameRoundTrip ==
    \A h \in Hs :
        (handlers[h].pc # "unpack" /\ WellFormedQuery(Req(h))) =>
            /\ handlers[h].msg.status = "ok"
            /\ handlers[h].msg.Name = JoinDots(LabelsOf(WireName(Req(h))))

(***************************************************************************)
(* C10: every response sent equals its request on bytes [0, question end)  *)
(* except the flags, bytes [2,4), and the answer count, bytes [6,8).       *)
(***************************************************************************)
\* The offset after the query class as unpack finds it, within the request.
QuestionEnd(d) == Min(ScanName(d, Len(d), HeaderLen) + 5, Len(d))

C10_PrefixCopied ==
    \A r \in sent :
        \A i \in 0..(QuestionEnd(Req(r.by)) - 1) :
            i \notin {2, 3, 6, 7} =>
                /\ i < Len(r.bytes)
                /\ At(r.bytes, i) = At(Req(r.by), i)

(***************************************************************************)
(* C8: what a handler does is decided by its own datagram and the          *)
(* configuration alone.  While a handler has not unpacked, its buffer      *)
(* holds its datagram as received, whatever the loop has read since; a     *)
(* handler that is done ended as handleRequest run alone on its datagram   *)
(* ends, and handed to the socket exactly the bytes that run yields, for   *)
(* its own sender; so two handlers of identical datagrams sent identical   *)
(* bytes, or both nothing.                                                 *)
(***************************************************************************)
C8_HandlersIndependent ==
    /\ \A h \in Hs :
          /\ handlers[h].pc = "unpack" =>
                /\ heap[handlers[h].buf] = Fresh(Req(h))
                /\ handlers[h].n = Len(Req(h))
          /\ Done(h) =>
                LET alone == HandleRequest(Req(h), domain, ip)
                IN  /\ handlers[h].out = alone.out
                    /\ SentBy(h) = IF alone.out = "sent"
                                   THEN {[by |-> h, to |-> recvd[h].addr,
                                          bytes |-> alone.bytes]}
                                   ELSE {}
    /\ \A h1, h2 \in Hs :
          (Done(h1) /\ Done(h2) /\ Req(h1) = Req(h2)) =>
              {r.bytes : r \in SentBy(h1)} = {r.bytes : r \in SentBy(h2)}

\* Two handlers were given the same datagram and both answered it, with the
\* same bytes.
C8_Witness ==
    \E h1, h2 \in Hs :
        /\ h1 < h2
        /\ Req(h1) = Req(h2)
        /\ handlers[h1].out = "sent"
        /\ handlers[h2].out = "sent"
        /\ \E r1 \in SentBy(h1), r2 \in SentBy(h2) : r1.bytes = r2.bytes

(***************************************************************************)
(* C9: whatever has been received, the receive loop runs on.  The process  *)
(* is alive and the loop is at its read or at its go statement; a datagram *)
(* that was read can be dispatched and further datagrams can be read;      *)
(* every datagram read has a handler of its own, with a buffer of its own, *)
(* or is the one about to be dispatched; a handler that failed (error or   *)
(* recovered panic) sent nothing, and every handler that has not unpacked  *)
(* yet can do so.                                                          *)
(***************************************************************************)
UnpackStep(h) == UnpackOk(h) \/ UnpackError(h) \/ UnpackPanic(h)

C9_LoopSurvives ==
    /\ alive
    /\ loopPc \in {"read", "go"}
    /\ loopPc = "go" => ENABLED GoHandleRequest
    /\ (loopPc = "read" /\ Len(recvd) < MaxDatagrams) =>
           ENABLED ReadFromUDPOk(Datagrams, MaxDatagrams)
    /\ Len(recvd) = Len(handlers) + (IF loopPc = "go" THEN 1 ELSE 0)
    /\ \A h1, h2 \in Hs : h1 # h2 => handlers[h1].buf # handlers[h2].buf
    /\ \A h \in Hs :
          /\ handlers[h].out \in {"error", "recovered"} => SentBy(h) = {}
          /\ handlers[h].pc = "unpack" => ENABLED UnpackStep(h)

\* After a failed read and a handler that panicked, a later datagram was
\* answered.
C9_Witness ==
    /\ readErrs > 0
    /\ \E h1, h2 \in Hs :
          /\ h1 < h2
          /\ handlers[h1].msg.status = "panic"
          /\ handlers[h1].out = "recovered"
          /\ handlers[h2].out = "sent"

====
